---- MODULE Spec2Model ----
(***************************************************************************)
(* Model of the zoraxy_plugin support library                              *)
(* (example/plugins/debugger/mod/zoraxy_plugin):                           *)
(*   - the embedded UI router (NewPluginEmbedUIRouter, Handler,            *)
(*     populateCSRFToken), and                                             *)
(*   - the start-up handshake (ServeIntroSpect, RecvConfigureSpec,         *)
(*     ServeAndRecvSpec).                                                  *)
(* Go strings are modelled as sequences of one-character strings, so that  *)
(* prefix stripping, slash collapsing, placeholder substitution, path      *)
(* validation and JSON decoding are computed character by character.       *)
(***************************************************************************)
EXTENDS Integers, Sequences, FiniteSets, TLC

VARIABLES
    router,      \* the *PluginUiRouter, or NoRouter before construction
    ctorIn,      \* the arguments NewPluginEmbedUIRouter was called with
    slot,        \* per concurrent request: position, request, locals, response
    started,     \* number of requests the router instance has been handed
    logged,      \* number of error lines Handler printed (fmt.Println, line 98)
    args,        \* os.Args
    descriptor,  \* the *IntroSpect passed to ServeAndRecvSpec
    npc,         \* position of the start-up sequence
    stdout,      \* lines printed by ServeIntroSpect
    exitCode,    \* NoExit while the process runs, else the os.Exit status
    result,      \* the *ConfigureSpec returned by ServeAndRecvSpec, or Nil
    err          \* the error returned by ServeAndRecvSpec, or Nil

vars == <<router, ctorIn, slot, started, logged,
          args, descriptor, npc, stdout, exitCode, result, err>>

routerVars == <<router, ctorIn, slot, started, logged>>
startupVars == <<args, descriptor, npc, stdout, exitCode, result, err>>

----------------------------------------------------------------------------
(* Go package strings *)

HasPrefix(s, prefix) ==
    /\ Len(s) >= Len(prefix)
    /\ SubSeq(s, 1, Len(prefix)) = prefix

HasSuffix(s, suffix) ==
    /\ Len(s) >= Len(suffix)
    /\ SubSeq(s, Len(s) - Len(suffix) + 1, Len(s)) = suffix

TrimPrefix(s, prefix) ==
    IF HasPrefix(s, prefix) THEN SubSeq(s, Len(prefix) + 1, Len(s)) ELSE s

TrimSuffix(s, suffix) ==
    IF HasSuffix(s, suffix) THEN SubSeq(s, 1, Len(s) - Len(suffix)) ELSE s

\* strings.Index, 1-based; 0 when substr does not occur
Index(s, substr) ==
    LET hits == {i \in 1..(Len(s) - Len(substr) + 1) :
                    SubSeq(s, i, i + Len(substr) - 1) = substr}
    IN IF hits = {} THEN 0 ELSE CHOOSE i \in hits : \A j \in hits : i <= j

Contains(s, substr) == Index(s, substr) # 0

\* strings.ReplaceAll for a non-empty old: left to right, non-overlapping,
\* the text after a match is scanned from the end of the match
RECURSIVE ReplaceAll(_, _, _)
ReplaceAll(s, old, new) ==
    LET j == Index(s, old)
    IN IF j = 0 THEN s
       ELSE SubSeq(s, 1, j - 1) \o new
            \o ReplaceAll(SubSeq(s, j + Len(old), Len(s)), old, new)

Slash == <<"/">>

----------------------------------------------------------------------------
(* NewPluginEmbedUIRouter *)

NoRouter == [kind |-> "none"]

\* lines 29-32 and 34-37: prepend a slash when missing, trim one trailing slash
NormalizePrefix(prefix) ==
    TrimSuffix(IF HasPrefix(prefix, Slash) THEN prefix ELSE Slash \o prefix, Slash)

NewPluginEmbedUIRouter(pluginID, targetFsPrefix, handlerPrefix) ==
    [kind           |-> "router",
     PluginID       |-> pluginID,
     TargetFsPrefix |-> NormalizePrefix(targetFsPrefix),
     HandlerPrefix  |-> NormalizePrefix(handlerPrefix)]

----------------------------------------------------------------------------
(* Go packages path and io/fs *)

Dot == <<".">>
DotDot == <<".", ".">>

\* the elements of s between slashes; the empty string has one empty element
RECURSIVE SplitSlash(_)
SplitSlash(s) ==
    LET i == Index(s, Slash)
    IN IF i = 0 THEN <<s>>
       ELSE <<SubSeq(s, 1, i - 1)>> \o SplitSlash(SubSeq(s, i + 1, Len(s)))

RECURSIVE JoinSlash(_)
JoinSlash(elems) ==
    IF elems = <<>> THEN <<>>
    ELSE IF Len(elems) = 1 THEN elems[1]
    ELSE elems[1] \o Slash \o JoinSlash(Tail(elems))

\* fs.ValidPath: "." or slash-separated elements none of which is empty,
\* "." or ".."
ValidPath(name) ==
    \/ name = Dot
    \/ \A i \in DOMAIN SplitSlash(name) :
          SplitSlash(name)[i] \notin {<<>>, Dot, DotDot}

RECURSIVE CleanElems(_, _, _)
CleanElems(elems, out, rooted) ==
    IF elems = <<>> THEN out
    ELSE LET e == Head(elems)
         IN IF e = <<>> \/ e = Dot
               THEN CleanElems(Tail(elems), out, rooted)
            ELSE IF e = DotDot
               THEN IF out # <<>> /\ out[Len(out)] # DotDot
                       THEN CleanElems(Tail(elems), SubSeq(out, 1, Len(out) - 1), rooted)
                    ELSE IF rooted
                       THEN CleanElems(Tail(elems), out, rooted)
                    ELSE CleanElems(Tail(elems), Append(out, e), rooted)
            ELSE CleanElems(Tail(elems), Append(out, e), rooted)

\* path.Clean
Clean(p) ==
    IF p = <<>> THEN Dot
    ELSE LET rooted == p[1] = "/"
             joined == JoinSlash(CleanElems(SplitSlash(p), <<>>, rooted))
         IN IF rooted THEN Slash \o joined
            ELSE IF joined = <<>> THEN Dot ELSE joined

\* path.Split(p)'s directory part: everything up to and including the last slash
RECURSIVE PathDir(_)
PathDir(p) ==
    IF p = <<>> \/ p[Len(p)] = "/" THEN p ELSE PathDir(SubSeq(p, 1, Len(p) - 1))

\* path.Base
PathBase(p) ==
    IF p = <<>> THEN Dot
    ELSE IF \A i \in DOMAIN SplitSlash(p) : SplitSlash(p)[i] = <<>>
       THEN Slash
    ELSE LET nonEmpty == SelectSeq(SplitSlash(p), LAMBDA e : e # <<>>)
         IN nonEmpty[Len(nonEmpty)]

----------------------------------------------------------------------------
(* The embed.FS the plugin was built with: a read-only tree.  The UI lives *)
(* under web/; secret.html lies outside it.                                *)

Placeholder == <<"{","{",".","c","s","r","f","T","o","k","e","n","}","}">>

IndexHtmlData == <<"a","{","{",".","c","s","r","f","T","o","k","e","n","}","}","b","{","{",".","c","s","r","f","T","o","k","e","n","}","}">>
PageHtmlData == <<"p","{","{",".","c","s","r","f","T","o","k","e","n","}","}">>
AppJsData == <<"j","s">>
SecretData == <<"S","{","{",".","c","s","r","f","T","o","k","e","n","}","}">>

EmbedFiles ==
    { [name |-> <<"w","e","b","/","i","n","d","e","x",".","h","t","m","l">>, data |-> IndexHtmlData],
      [name |-> <<"w","e","b","/","s","u","b","/","p","a","g","e",".","h","t","m","l">>, data |-> PageHtmlData],
      [name |-> <<"w","e","b","/","a","p","p",".","j","s">>, data |-> AppJsData],
      [name |-> <<"s","e","c","r","e","t",".","h","t","m","l">>, data |-> SecretData] }

IsFile(name) == \E f \in EmbedFiles : f.name = name

FileData(name) == (CHOOSE f \in EmbedFiles : f.name = name).data

IsDir(name) ==
    \/ name = Dot
    \/ \E f \in EmbedFiles : HasPrefix(f.name, name \o Slash)

\* embed.FS.Open: lookup refuses any name that is not a fs.ValidPath
EmbedExists(name) == ValidPath(name) /\ (IsFile(name) \/ IsDir(name))

\* fs.ReadFile on the embed.FS: fails for an invalid name, a missing file
\* and a directory
ReadFile_cleaned(name) ==
    LET c == Clean(name)
    IN IF IsFile(c) THEN [ok |-> TRUE, data |-> FileData(c)]
       ELSE [ok |-> FALSE, data |-> <<>>]

ReadFile(name) ==
    IF ValidPath(name) /\ IsFile(name)
       THEN [ok |-> TRUE, data |-> FileData(name)]
       ELSE [ok |-> FALSE, data |-> <<>>]

\* fs.Sub: fails exactly when dir is not a fs.ValidPath; the directory need
\* not exist
FsSub_lenient(dir) == [ok |-> TRUE, dir |-> dir]

FsSub(dir) == [ok |-> ValidPath(dir), dir |-> dir]

\* Open on the tree returned by fs.Sub: the full name of `name` in the
\* embed.FS, or a failure
SubFullName(sub, name) ==
    IF ~ValidPath(name) THEN [ok |-> FALSE, name |-> <<>>]
    ELSE IF sub.dir = Dot THEN [ok |-> TRUE, name |-> name]
    ELSE IF name = Dot THEN [ok |-> TRUE, name |-> sub.dir]
    ELSE [ok |-> TRUE, name |-> sub.dir \o Slash \o name]

\* http.FS(subFS).Open(name) for a slash-rooted name
HttpFsName(sub, name) ==
    SubFullName(sub, IF name = Slash THEN Dot ELSE TrimPrefix(name, Slash))

----------------------------------------------------------------------------
(* Go package net/url: url.Parse, for request lines without '#' and '%'    *)

Letters ==
    {"a","b","c","d","e","f","g","h","i","j","k","l","m","n","o","p","q","r",
     "s","t","u","v","w","x","y","z"}

SchemeExtra == {"0","1","2","3","4","5","6","7","8","9","+","-","."}

\* getScheme: [ok, scheme, rest]
RECURSIVE GetSchemeFrom(_, _)
GetSchemeFrom(raw, i) ==
    IF i > Len(raw) THEN [ok |-> TRUE, scheme |-> <<>>, rest |-> raw]
    ELSE IF raw[i] \in Letters THEN GetSchemeFrom(raw, i + 1)
    ELSE IF raw[i] \in SchemeExtra
       THEN IF i = 1 THEN [ok |-> TRUE, scheme |-> <<>>, rest |-> raw]
            ELSE GetSchemeFrom(raw, i + 1)
    ELSE IF raw[i] = ":"
       THEN IF i = 1 THEN [ok |-> FALSE, scheme |-> <<>>, rest |-> <<>>]
            ELSE [ok |-> TRUE, scheme |-> SubSeq(raw, 1, i - 1),
                  rest |-> SubSeq(raw, i + 1, Len(raw))]
    ELSE [ok |-> TRUE, scheme |-> <<>>, rest |-> raw]

NilURL == [ok |-> FALSE, Scheme |-> <<>>, Opaque |-> <<>>, Host |-> <<>>,
           Path |-> <<>>, RawQuery |-> <<>>]

\* url.Parse(rawURL); ok = FALSE stands for the (nil, err) return
UrlParse(rawURL) ==
    LET sch == GetSchemeFrom(rawURL, 1)
    IN IF ~sch.ok THEN NilURL
       ELSE
       LET q     == Index(sch.rest, <<"?">>)
           rest  == IF q = 0 THEN sch.rest ELSE SubSeq(sch.rest, 1, q - 1)
           query == IF q = 0 THEN <<>> ELSE SubSeq(sch.rest, q + 1, Len(sch.rest))
       IN IF ~HasPrefix(rest, Slash) /\ sch.scheme # <<>>
             THEN [ok |-> TRUE, Scheme |-> sch.scheme, Opaque |-> rest,
                   Host |-> <<>>, Path |-> <<>>, RawQuery |-> query]
          ELSE IF ~HasPrefix(rest, Slash) /\ Contains(SplitSlash(rest)[1], <<":">>)
             THEN NilURL
          ELSE IF HasPrefix(rest, <<"/","/">>)
                  /\ (sch.scheme # <<>> \/ ~HasPrefix(rest, <<"/","/","/">>))
             THEN LET auth == SubSeq(rest, 3, Len(rest))
                      i    == Index(auth, Slash)
                  IN [ok |-> TRUE, Scheme |-> sch.scheme, Opaque |-> <<>>,
                      Host |-> IF i = 0 THEN auth ELSE SubSeq(auth, 1, i - 1),
                      Path |-> IF i = 0 THEN <<>> ELSE SubSeq(auth, i, Len(auth)),
                      RawQuery |-> query]
          ELSE [ok |-> TRUE, Scheme |-> sch.scheme, Opaque |-> <<>>,
                Host |-> <<>>, Path |-> rest, RawQuery |-> query]

----------------------------------------------------------------------------
(* Go package net/http: the responses the router produces *)

NoResponse == [status |-> 0, location |-> <<>>, body |-> <<>>]

\* a panic in the handler: net/http recovers it and drops the connection,
\* nothing is written
PanicResponse == [status |-> -1, location |-> <<>>, body |-> <<>>]

\* http.Error
HttpError(msg, code) == [status |-> code, location |-> <<>>, body |-> msg]

\* http.Redirect: the Location header for target `url` of a request whose
\* path is oldpath
RedirectLocation(oldpath, url) ==
    LET u == UrlParse(url)
    IN IF u.ok /\ u.Scheme = <<>> /\ u.Host = <<>>
          THEN LET old  == IF oldpath = <<>> THEN Slash ELSE oldpath
                   abs  == IF url = <<>> \/ url[1] # "/"
                              THEN PathDir(old) \o url ELSE url
                   cl   == Clean(abs)
               IN IF HasSuffix(abs, Slash) /\ ~HasSuffix(cl, Slash)
                     THEN cl \o Slash ELSE cl
          ELSE url

HttpRedirect(oldpath, url, code) ==
    [status |-> code, location |-> RedirectLocation(oldpath, url), body |-> <<>>]

\* the body http.FileServer writes for a directory without index.html
DirListing == <<"<","p","r","e",">">>

\* http.FileServer(http.FS(subFS)).ServeHTTP for a request path urlPath
FileServer(sub, urlPath) ==
    LET upath == IF HasPrefix(urlPath, Slash) THEN urlPath ELSE Slash \o urlPath
        name  == Clean(upath)
        full  == HttpFsName(sub, name)
    IN IF HasSuffix(upath, <<"/","i","n","d","e","x",".","h","t","m","l">>)
          THEN [status |-> 301, location |-> <<".","/">>, body |-> <<>>]
       ELSE IF ~full.ok \/ ~EmbedExists(full.name)
          THEN HttpError(<<"4","0","4"," ","p","a","g","e"," ","n","o","t"," ","f","o","u","n","d">>, 404)
       ELSE IF IsDir(full.name)
          THEN IF ~HasSuffix(upath, Slash)
                  THEN [status |-> 301, location |-> PathBase(upath) \o Slash,
                        body |-> <<>>]
               ELSE LET index == HttpFsName(sub, TrimSuffix(name, Slash) \o <<"/","i","n","d","e","x",".","h","t","m","l">>)
                    IN IF index.ok /\ EmbedExists(index.name) /\ IsFile(index.name)
                          THEN [status |-> 200, location |-> <<>>,
                                body |-> FileData(index.name)]
                          ELSE [status |-> 200, location |-> <<>>, body |-> DirListing]
       ELSE IF HasSuffix(upath, Slash)
          THEN [status |-> 301, location |-> <<".",".","/">> \o PathBase(upath),
                body |-> <<>>]
       ELSE [status |-> 200, location |-> <<>>, body |-> FileData(full.name)]

----------------------------------------------------------------------------
(* PluginUiRouter.Handler and PluginUiRouter.populateCSRFToken *)

\* the requests handled concurrently by one router instance
Slots == {1, 2}

\* requests one router instance is handed over its lifetime
MaxRequests == 3

\* RequestURI of the inbound requests
RequestURIs ==
    { <<"/","u","i","/">>,
      <<"/","u","i","/","i","n","d","e","x",".","h","t","m","l">>,
      <<"/","u","i","/","i","n","d","e","x",".","h","t","m","l","?","v","=","1">>,
      <<"/","u","i","/","/","i","n","d","e","x",".","h","t","m","l">>,
      <<"/","u","i","/","/","/","i","n","d","e","x",".","h","t","m","l">>,
      <<"/","u","i","/","/","/","/","/","a","p","p",".","j","s">>,
      <<"/","u","i","/","m","i","s","s","i","n","g",".","h","t","m","l">>,
      <<"/","u","i","/",".",".","/","s","e","c","r","e","t",".","h","t","m","l">>,
      <<"/","u","i","/","s","u","b","/">>,
      <<"/","u","i","/","s","u","b","/","p","a","g","e",".","h","t","m","l">>,
      <<"/","u","i","/","a","p","p",".","j","s">>,
      <<"/","u","i">>,
      <<"/","u","i",":","8",".","h","t","m","l">> }

\* the values of the X-Zoraxy-Csrf header of a request: none, one empty
\* value, or one token
CsrfHeaders ==
    { <<>>,
      << <<>> >>,
      << <<"a","b","c","1","2","3">> >>,
      << <<"x","y","z","7","8","9">> >>,
      << Placeholder >> }

MissingCsrfToken == <<"m","i","s","s","i","n","g","-","c","s","r","f","-","t","o","k","e","n">>

\* http.Header.Get: the first value, or "" when there is none
HeaderGet(values) == IF values = <<>> THEN <<>> ELSE values[1]

\* lines 50-53
CsrfTokenOf(hdr) ==
    IF HeaderGet(hdr) = <<>> THEN MissingCsrfToken ELSE HeaderGet(hdr)

\* lines 89-91
RewriteURL(p, requestURI) ==
    ReplaceAll(TrimPrefix(requestURI, p.HandlerPrefix), <<"/","/">>, Slash)

\* lines 65-67
TargetFilePath(p, urlPath) ==
    TrimPrefix(p.TargetFsPrefix \o Slash \o TrimPrefix(urlPath, Slash), Slash)

\* line 74
PopulateBody_first(body, csrfToken) ==
    LET j == Index(body, Placeholder)
    IN IF j = 0 THEN body
       ELSE SubSeq(body, 1, j - 1) \o csrfToken
            \o SubSeq(body, j + Len(Placeholder), Len(body))

PopulateBody(body, csrfToken) == ReplaceAll(body, Placeholder, csrfToken)

\* lines 56-81: the middleware returned by populateCSRFToken, for a request
\* whose r.URL is url.  The requests are GETs without Range or conditional
\* headers, which http.ServeContent answers with 200 and the whole body.
Middleware(p, sub, url, csrfToken) ==
    IF ~url.ok THEN PanicResponse
    ELSE IF HasSuffix(url.Path, Slash)
       THEN HttpRedirect(url.Path, url.Path \o <<"i","n","d","e","x",".","h","t","m","l">>, 302)
    ELSE IF HasSuffix(url.Path, <<".","h","t","m","l">>)
       THEN LET content == ReadFile(TargetFilePath(p, url.Path))
            IN IF ~content.ok THEN HttpError(<<"F","i","l","e"," ","n","o","t"," ","f","o","u","n","d">>, 404)
               ELSE [status |-> 200, location |-> <<>>,
                     body |-> PopulateBody(content.data, csrfToken)]
    ELSE FileServer(sub, url.Path)

IdleSlot ==
    [pc |-> "idle", uri |-> <<>>, hdr |-> <<>>, rewrittenURL |-> <<>>,
     url |-> NilURL, subFS |-> [ok |-> FALSE, dir |-> <<>>],
     csrfToken |-> <<>>, resp |-> NoResponse]

\* the token the middleware of slot s substitutes: the csrfToken captured
\* by its own populateCSRFToken call
TokenFor_shared(s) ==
    IF \E t \in Slots \ {s} : slot[t].pc = "populated"
       THEN slot[CHOOSE t \in Slots \ {s} : slot[t].pc = "populated"].csrfToken
       ELSE slot[s].csrfToken

TokenFor(s) == slot[s].csrfToken

\* a request arrives and Handler rewrites it (lines 89-93)
HandlerRewrite(s) ==
    /\ router # NoRouter
    /\ slot[s].pc = "idle"
    /\ started < MaxRequests
    /\ \E uri \in RequestURIs, hdr \in CsrfHeaders :
          LET rewritten == RewriteURL(router, uri)
          IN slot' = [slot EXCEPT ![s] =
                        [IdleSlot EXCEPT !.pc = "rewritten",
                                         !.uri = uri,
                                         !.hdr = hdr,
                                         !.rewrittenURL = rewritten,
                                         !.url = UrlParse(rewritten)]]
    /\ started' = started + 1
    /\ UNCHANGED <<router, ctorIn, logged>>
    /\ UNCHANGED startupVars

\* lines 96-104 up to the call of populateCSRFToken (lines 50-53)
HandlerSubFS(s) ==
    /\ slot[s].pc = "rewritten"
    /\ LET sub == FsSub(TrimPrefix(router.TargetFsPrefix, Slash))
       IN IF ~sub.ok
             THEN /\ logged' = logged + 1
                  /\ slot' = [slot EXCEPT ![s].pc = "done",
                                          ![s].resp = HttpError(<<"I","n","t","e","r","n","a","l"," ","S","e","r","v","e","r"," ","E","r","r","o","r">>, 500)]
             ELSE /\ logged' = logged
                  /\ slot' = [slot EXCEPT ![s].pc = "populated",
                                          ![s].subFS = sub,
                                          ![s].csrfToken = CsrfTokenOf(slot[s].hdr)]
    /\ UNCHANGED <<router, ctorIn, started>>
    /\ UNCHANGED startupVars

\* line 104: the middleware serves the request (lines 56-81)
ServeMiddleware(s) ==
    /\ slot[s].pc = "populated"
    /\ slot' = [slot EXCEPT ![s].pc = "done",
                            ![s].resp = Middleware(router, slot[s].subFS,
                                                   slot[s].url, TokenFor(s))]
    /\ UNCHANGED <<router, ctorIn, started, logged>>
    /\ UNCHANGED startupVars

\* the response has been written; the goroutine of the request ends
Complete(s) ==
    /\ slot[s].pc = "done"
    /\ slot' = [slot EXCEPT ![s] = IdleSlot]
    /\ UNCHANGED <<router, ctorIn, started, logged>>
    /\ UNCHANGED startupVars

\* the targetFsPrefix and handlerPrefix arguments plugins are built with
DeployedFsPrefixes == { <<"/","w","e","b">>, <<".","/","w","e","b">> }
DeployedHandlerPrefixes == { <<"u","i">> }

PluginID == <<"p">>

Construct(fsPrefixes, handlerPrefixes) ==
    /\ router = NoRouter
    /\ \E t \in fsPrefixes, h \in handlerPrefixes :
          /\ router' = NewPluginEmbedUIRouter(PluginID, t, h)
          /\ ctorIn' = <<t, h>>
    /\ UNCHANGED <<slot, started, logged>>
    /\ UNCHANGED startupVars

ConstructDeployed == Construct(DeployedFsPrefixes, DeployedHandlerPrefixes)

\* every string of at most MaxPrefixLen characters over "/" and "w"
MaxPrefixLen == 3
PrefixStrings == UNION {[1..k -> {"/", "w"}] : k \in 0..MaxPrefixLen}

ConstructAny == Construct(PrefixStrings, PrefixStrings)

Handle == \E s \in Slots : HandlerRewrite(s)
SubFS == \E s \in Slots : HandlerSubFS(s)
Serve == \E s \in Slots : ServeMiddleware(s)
Finish == \E s \in Slots : Complete(s)

InitRouter ==
    /\ router = NoRouter
    /\ ctorIn = <<>>
    /\ slot = [s \in Slots |-> IdleSlot]
    /\ started = 0
    /\ logged = 0

----------------------------------------------------------------------------
(* Go package encoding/json: json.Unmarshal into a ConfigureSpec, for      *)
(* texts made of objects, strings without escapes, non-negative integers,  *)
(* null and blanks.                                                        *)

Digits == {"0","1","2","3","4","5","6","7","8","9"}

DigitValue(c) ==
    CASE c = "0" -> 0 [] c = "1" -> 1 [] c = "2" -> 2 [] c = "3" -> 3
      [] c = "4" -> 4 [] c = "5" -> 5 [] c = "6" -> 6 [] c = "7" -> 7
      [] c = "8" -> 8 [] c = "9" -> 9

RECURSIVE DigitsValue(_)
DigitsValue(ds) ==
    IF ds = <<>> THEN 0
    ELSE 10 * DigitsValue(SubSeq(ds, 1, Len(ds) - 1)) + DigitValue(ds[Len(ds)])

RECURSIVE SkipBlanks(_, _)
SkipBlanks(s, i) ==
    IF i <= Len(s) /\ s[i] = " " THEN SkipBlanks(s, i + 1) ELSE i

\* the position of the quote closing a string whose text starts at i, or 0
RECURSIVE ClosingQuote(_, _)
ClosingQuote(s, i) ==
    IF i > Len(s) THEN 0
    ELSE IF s[i] = "\"" THEN i
    ELSE ClosingQuote(s, i + 1)

\* the first position at or after i that holds no digit
RECURSIVE DigitsEnd(_, _)
DigitsEnd(s, i) ==
    IF i <= Len(s) /\ s[i] \in Digits THEN DigitsEnd(s, i + 1) ELSE i

JsonNull == [t |-> "null", n |-> 0, s |-> <<>>, members |-> <<>>]
JsonFail == [ok |-> FALSE, v |-> JsonNull, next |-> 0]

\* the scanner: the value starting at position i of s and the position
\* after it
RECURSIVE ParseValue(_, _)
RECURSIVE ParseMembers(_, _, _)
ParseValue(s, i0) ==
    LET i == SkipBlanks(s, i0)
    IN IF i > Len(s) THEN JsonFail
       ELSE IF s[i] = "{"
          THEN LET j == SkipBlanks(s, i + 1)
               IN IF j <= Len(s) /\ s[j] = "}"
                     THEN [ok |-> TRUE, next |-> j + 1,
                           v |-> [JsonNull EXCEPT !.t = "object"]]
                     ELSE ParseMembers(s, j, <<>>)
       ELSE IF s[i] = "\""
          THEN LET c == ClosingQuote(s, i + 1)
               IN IF c = 0 THEN JsonFail
                  ELSE [ok |-> TRUE, next |-> c + 1,
                        v |-> [JsonNull EXCEPT !.t = "string",
                                               !.s = SubSeq(s, i + 1, c - 1)]]
       ELSE IF s[i] \in Digits
          THEN LET e == IF s[i] = "0" THEN i + 1 ELSE DigitsEnd(s, i)
               IN [ok |-> TRUE, next |-> e,
                   v |-> [JsonNull EXCEPT !.t = "number",
                                          !.n = DigitsValue(SubSeq(s, i, e - 1))]]
       ELSE IF i + 3 <= Len(s) /\ SubSeq(s, i, i + 3) = <<"n","u","l","l">>
          THEN [ok |-> TRUE, next |-> i + 4, v |-> JsonNull]
       ELSE JsonFail

ParseMembers(s, i, acc) ==
    IF i > Len(s) \/ s[i] # "\"" THEN JsonFail
    ELSE LET c == ClosingQuote(s, i + 1)
         IN IF c = 0 THEN JsonFail
            ELSE LET colon == SkipBlanks(s, c + 1)
                 IN IF colon > Len(s) \/ s[colon] # ":" THEN JsonFail
                    ELSE LET val == ParseValue(s, colon + 1)
                         IN IF ~val.ok THEN JsonFail
                            ELSE LET k   == SubSeq(s, i + 1, c - 1)
                                     ms  == Append(acc, [key |-> k, val |-> val.v])
                                     sep == SkipBlanks(s, val.next)
                                 IN IF sep > Len(s) THEN JsonFail
                                    ELSE IF s[sep] = ","
                                       THEN ParseMembers(s, SkipBlanks(s, sep + 1), ms)
                                    ELSE IF s[sep] = "}"
                                       THEN [ok |-> TRUE, next |-> sep + 1,
                                             v |-> [JsonNull EXCEPT !.t = "object",
                                                                    !.members = ms]]
                                    ELSE JsonFail

\* type ConfigureSpec and type RuntimeConstantValue
ZeroRuntimeConst == [ZoraxyVersion |-> <<>>, ZoraxyUUID |-> <<>>]
ZeroConfigureSpec == [nil |-> FALSE, Port |-> 0, RuntimeConst |-> ZeroRuntimeConst]
NilConfigureSpec == [nil |-> TRUE, Port |-> 0, RuntimeConst |-> ZeroRuntimeConst]

NoError == "nil"
JsonSyntaxError == "json: syntax error"
JsonTypeError == "json: cannot unmarshal into Go value"

\* decoding of one object into a RuntimeConstantValue: [val, mismatch]
RECURSIVE DecodeRuntimeConst(_, _)
DecodeRuntimeConst(members, acc) ==
    IF members = <<>> THEN acc
    ELSE LET m == Head(members)
             isField == m.key \in {<<"z","o","r","a","x","y","_","v","e","r","s","i","o","n">>, <<"z","o","r","a","x","y","_","u","u","i","d">>}
             next ==
                IF ~isField \/ m.val.t = "null" THEN acc
                ELSE IF m.val.t # "string" THEN [acc EXCEPT !.mismatch = TRUE]
                ELSE IF m.key = <<"z","o","r","a","x","y","_","v","e","r","s","i","o","n">>
                   THEN [acc EXCEPT !.val.ZoraxyVersion = m.val.s]
                ELSE [acc EXCEPT !.val.ZoraxyUUID = m.val.s]
         IN DecodeRuntimeConst(Tail(members), next)

\* decoding of one object into a ConfigureSpec: [val, mismatch]
RECURSIVE DecodeConfigureSpec(_, _)
DecodeConfigureSpec(members, acc) ==
    IF members = <<>> THEN acc
    ELSE LET m == Head(members)
             next ==
                IF m.key = <<"p","o","r","t">>
                   THEN IF m.val.t = "null" THEN acc
                        ELSE IF m.val.t # "number" THEN [acc EXCEPT !.mismatch = TRUE]
                        ELSE [acc EXCEPT !.val.Port = m.val.n]
                ELSE IF m.key = <<"r","u","n","t","i","m","e","_","c","o","n","s","t">>
                   THEN IF m.val.t = "null" THEN acc
                        ELSE IF m.val.t # "object" THEN [acc EXCEPT !.mismatch = TRUE]
                        ELSE LET rc == DecodeRuntimeConst(m.val.members,
                                           [val |-> acc.val.RuntimeConst, mismatch |-> FALSE])
                             IN [val |-> [acc.val EXCEPT !.RuntimeConst = rc.val],
                                 mismatch |-> acc.mismatch \/ rc.mismatch]
                ELSE acc
         IN DecodeConfigureSpec(Tail(members), next)

\* json.Unmarshal(data, &configSpec) with configSpec the zero ConfigureSpec
Unmarshal(data) ==
    LET parsed == ParseValue(data, 1)
    IN IF ~parsed.ok \/ SkipBlanks(data, parsed.next) <= Len(data)
          THEN [err |-> JsonSyntaxError, val |-> ZeroConfigureSpec]
       ELSE IF parsed.v.t = "null"
          THEN [err |-> NoError, val |-> ZeroConfigureSpec]
       ELSE IF parsed.v.t # "object"
          THEN [err |-> JsonTypeError, val |-> ZeroConfigureSpec]
       ELSE LET d == DecodeConfigureSpec(parsed.v.members,
                        [val |-> ZeroConfigureSpec, mismatch |-> FALSE])
            IN [err |-> IF d.mismatch THEN JsonTypeError ELSE NoError,
                val |-> d.val]

----------------------------------------------------------------------------
(* ServeIntroSpect, RecvConfigureSpec, ServeAndRecvSpec *)

NoExit == -1

ErrNoPort == "No port specified after -configure flag"
ErrNoFlag == "No -configure flag found"

IntrospectFlag == <<"-","i","n","t","r","o","s","p","e","c","t">>
ConfigureFlag == <<"-","c","o","n","f","i","g","u","r","e">>
ConfigureEq == <<"-","c","o","n","f","i","g","u","r","e","=">>

\* the payloads the host or a user may pass
FullPayload == <<"{","\"","p","o","r","t","\"",":","8","0",",","\"","r","u","n","t","i","m","e","_","c","o","n","s","t","\"",":","{","\"","z","o","r","a","x","y","_","v","e","r","s","i","o","n","\"",":","\"","3","\"",",","\"","z","o","r","a","x","y","_","u","u","i","d","\"",":","\"","u","\"","}","}">>
PortPayload == <<"{"," ","\"","p","o","r","t","\"",":"," ","5"," ","}">>
MistypedPayload == <<"{","\"","p","o","r","t","\"",":","\"","5","\"","}">>
NotJson == <<"n","o","t","-","j","s","o","n">>

Payloads == {FullPayload, PortPayload, MistypedPayload, NotJson}

ArgStrings ==
    {<<"p","r","o","g">>, IntrospectFlag, ConfigureFlag, ConfigureEq}
    \cup Payloads
    \cup {ConfigureEq \o j : j \in Payloads}

\* longest os.Args of a start
MaxArgs == 3

\* the IntroSpect payloads of the plugins
Descriptors ==
    { [ID |-> <<"a",".","b">>, Type |-> 0, VersionMajor |-> 1, VersionMinor |-> 0, VersionPatch |-> 2],
      [ID |-> <<"c">>, Type |-> 1, VersionMajor |-> 0, VersionMinor |-> 3, VersionPatch |-> 0] }

\* json.MarshalIndent(pluginSpect, "", " "): the members in the order of the
\* struct's fields, under their json names
MarshalIndent(d) ==
    << [key |-> <<"i","d">>, val |-> d.ID],
       [key |-> <<"t","y","p","e">>, val |-> d.Type],
       [key |-> <<"v","e","r","s","i","o","n","_","m","a","j","o","r">>, val |-> d.VersionMajor],
       [key |-> <<"v","e","r","s","i","o","n","_","m","i","n","o","r">>, val |-> d.VersionMinor],
       [key |-> <<"v","e","r","s","i","o","n","_","p","a","t","c","h">>, val |-> d.VersionPatch] >>

\* line 229
IntrospectRequested_any(osArgs) ==
    \E i \in DOMAIN osArgs : osArgs[i] = IntrospectFlag

IntrospectRequested(osArgs) ==
    Len(osArgs) > 1 /\ osArgs[2] = IntrospectFlag

\* line 263: arg[11:]
EmbeddedPayload_keepEq(arg) == SubSeq(arg, 11, Len(arg))

EmbeddedPayload(arg) == SubSeq(arg, 12, Len(arg))

\* the (*ConfigureSpec, error) pair returned for a payload text
Decoded(data) ==
    LET u == Unmarshal(data)
    IN IF u.err # NoError THEN [spec |-> NilConfigureSpec, err |-> u.err]
       ELSE [spec |-> u.val, err |-> NoError]

\* lines 275-277
DanglingFlag_zero == [spec |-> ZeroConfigureSpec, err |-> NoError]

DanglingFlag == [spec |-> NilConfigureSpec, err |-> ErrNoPort]

\* lines 260-281: the loop over os.Args from position i (1-based)
RECURSIVE RecvConfigureSpecFrom(_, _)
RecvConfigureSpecFrom(osArgs, i) ==
    IF i > Len(osArgs) THEN [spec |-> NilConfigureSpec, err |-> ErrNoFlag]
    ELSE IF HasPrefix(osArgs[i], ConfigureEq)
       THEN Decoded(EmbeddedPayload(osArgs[i]))
    ELSE IF osArgs[i] = ConfigureFlag
       THEN IF Len(osArgs) > i
               THEN Decoded(osArgs[i + 1])
               ELSE DanglingFlag
    ELSE RecvConfigureSpecFrom(osArgs, i + 1)

RecvConfigureSpec(osArgs) == RecvConfigureSpecFrom(osArgs, 1)

\* lines 228-235, called from line 291
ServeIntroSpect ==
    /\ npc = "main"
    /\ IF IntrospectRequested(args)
          THEN /\ stdout' = Append(stdout, MarshalIndent(descriptor))
               /\ exitCode' = 0
               /\ npc' = "exited"
          ELSE /\ npc' = "introspected"
               /\ UNCHANGED <<stdout, exitCode>>
    /\ UNCHANGED <<args, descriptor, result, err>>
    /\ UNCHANGED routerVars

\* line 292: ServeAndRecvSpec returns what RecvConfigureSpec returns
RecvAndReturn ==
    /\ npc = "introspected"
    /\ LET r == RecvConfigureSpec(args)
       IN /\ result' = r.spec
          /\ err' = r.err
    /\ npc' = "returned"
    /\ UNCHANGED <<args, descriptor, stdout, exitCode>>
    /\ UNCHANGED routerVars

ArgLists == UNION {[1..n -> ArgStrings] : n \in 1..MaxArgs}

InitStartup ==
    /\ args \in ArgLists
    /\ descriptor \in Descriptors
    /\ npc = "main"
    /\ stdout = <<>>
    /\ exitCode = NoExit
    /\ result = NilConfigureSpec
    /\ err = NoError

\* the process after a start with -configure=<PortPayload>: the handshake
\* has returned the parameters and the plugin serves its UI
StartupDone ==
    /\ args = <<<<"p","r","o","g">>, ConfigureEq \o PortPayload>>
    /\ descriptor = CHOOSE d \in Descriptors : d.Type = 0
    /\ npc = "returned"
    /\ stdout = <<>>
    /\ exitCode = NoExit
    /\ result = RecvConfigureSpec(args).spec
    /\ err = NoError

----------------------------------------------------------------------------
(* Specifications *)

\* one router instance serving requests
Init == InitRouter /\ StartupDone
Next == ConstructDeployed \/ Handle \/ SubFS \/ Serve \/ Finish
Spec == Init /\ [][Next]_vars

\* the construction of a router from arbitrary prefixes
NextCtor == ConstructAny
SpecCtor == Init /\ [][NextCtor]_vars

\* the start-up handshake of one process
InitNeg == InitRouter /\ InitStartup
NextNeg == ServeIntroSpect \/ RecvAndReturn
SpecNeg == InitNeg /\ [][NextNeg]_vars

----------------------------------------------------------------------------
(* Vocabulary of the properties *)

\* the request has been rewritten and its r.URL is usable
Dispatched(s) == slot[s].pc # "idle" /\ slot[s].url.ok

\* an HTML document request: the rewritten path ends in .html
HtmlRequest(s) == Dispatched(s) /\ HasSuffix(slot[s].url.Path, <<".","h","t","m","l">>)

\* the path of the request as the client sent it (the request line up to '?')
RequestPath(s) ==
    LET q == Index(slot[s].uri, <<"?">>)
    IN IF q = 0 THEN slot[s].uri ELSE SubSeq(slot[s].uri, 1, q - 1)

\* the directory of the asset subtree inside the embedded tree
SubtreeDir == TrimPrefix(router.TargetFsPrefix, Slash)

\* the configured asset prefix names a subtree (a valid io/fs path)
SubtreeConstructible == router # NoRouter /\ ValidPath(SubtreeDir)

InSubtree(f) == HasPrefix(f.name, SubtreeDir \o Slash)

\* the files of the subtree the rewritten path of slot s names
NamedFiles(s) ==
    {f \in EmbedFiles : InSubtree(f) /\ f.name = SubtreeDir \o slot[s].url.Path}

\* the effective token of a request: the header value, or the sentinel when
\* the header is absent or empty
EffectiveToken(hdr) ==
    IF hdr = <<>> \/ hdr[1] = <<>> THEN MissingCsrfToken ELSE hdr[1]

\* the texts between the placeholder occurrences of a document
RECURSIVE Pieces(_)
Pieces(doc) ==
    IF \E i \in 1..Len(doc) : HasPrefix(SubSeq(doc, i, Len(doc)), Placeholder)
       THEN LET i == CHOOSE k \in 1..Len(doc) :
                        /\ HasPrefix(SubSeq(doc, k, Len(doc)), Placeholder)
                        /\ \A j \in 1..(k - 1) :
                              ~HasPrefix(SubSeq(doc, j, Len(doc)), Placeholder)
            IN <<SubSeq(doc, 1, i - 1)>>
               \o Pieces(SubSeq(doc, i + Len(Placeholder), Len(doc)))
       ELSE <<doc>>

\* the pieces with tok between each two of them
RECURSIVE Filled(_, _)
Filled(pieces, tok) ==
    IF Len(pieces) = 1 THEN pieces[1]
    ELSE pieces[1] \o tok \o Filled(Tail(pieces), tok)

IsDirective(arg) == arg = ConfigureFlag \/ HasPrefix(arg, ConfigureEq)

Directives(osArgs) == {i \in DOMAIN osArgs : IsDirective(osArgs[i])}

\* the first configuration directive of an argument list, 0 when none
FirstDirective(osArgs) ==
    IF Directives(osArgs) = {} THEN 0
    ELSE CHOOSE i \in Directives(osArgs) : \A j \in Directives(osArgs) : i <= j

\* the value of the member named key in a printed JSON document
JsonField(doc, key) == doc[CHOOSE m \in DOMAIN doc : doc[m].key = key].val

MissingConfiguration == {ErrNoPort, ErrNoFlag}
MalformedConfiguration == {JsonSyntaxError, JsonTypeError}

----------------------------------------------------------------------------
(* Properties *)

\* C1: for every payload J that parses successfully and every argument list
\* with exactly one configuration directive, RecvConfigureSpec returns the
\* same parameters whether the directive is the single argument
\* -configure=J or the two arguments -configure, J.
C1_FormsAgree ==
    (npc = "returned" /\ Cardinality(Directives(args)) = 1) =>
       LET d == FirstDirective(args)
           before == SubSeq(args, 1, d - 1)
       IN /\ (HasPrefix(args[d], ConfigureEq)
                /\ Unmarshal(TrimPrefix(args[d], ConfigureEq)).err = NoError) =>
                LET other == before
                             \o <<ConfigureFlag, TrimPrefix(args[d], ConfigureEq)>>
                             \o SubSeq(args, d + 1, Len(args))
                IN /\ ~result.nil
                   /\ err = NoError
                   /\ result = RecvConfigureSpec(other).spec
                   /\ err = RecvConfigureSpec(other).err
          /\ (args[d] = ConfigureFlag /\ d < Len(args)
                /\ Unmarshal(args[d + 1]).err = NoError) =>
                LET other == before
                             \o <<ConfigureEq \o args[d + 1]>>
                             \o SubSeq(args, d + 2, Len(args))
                IN /\ ~result.nil
                   /\ err = NoError
                   /\ result = RecvConfigureSpec(other).spec
                   /\ err = RecvConfigureSpec(other).err

C1_Witness ==
    /\ npc = "returned"
    /\ args = <<<<"p","r","o","g">>, ConfigureEq \o FullPayload>>
    /\ result.Port = 80
    /\ result.RuntimeConst.ZoraxyVersion = <<"3">>
    /\ result.RuntimeConst.ZoraxyUUID = <<"u">>

\* C2: RecvConfigureSpec returns no parameters and a MissingConfiguration
\* error when no argument is a configuration directive or when -configure is
\* the last argument, and no parameters and a MalformedConfiguration error
\* when the directive's value is present but does not parse; ["prog"] and
\* ["prog", "-configure"] give MissingConfiguration, ["prog",
\* "-configure=not-json"] gives MalformedConfiguration.
C2_ConfigurationErrors ==
    npc = "returned" =>
       LET d == FirstDirective(args)
       IN /\ (d = 0 \/ (d = Len(args) /\ args[d] = ConfigureFlag)) =>
                (result.nil /\ err \in MissingConfiguration)
          /\ (d # 0 /\ HasPrefix(args[d], ConfigureEq)
                /\ Unmarshal(TrimPrefix(args[d], ConfigureEq)).err # NoError) =>
                (result.nil /\ err \in MalformedConfiguration)
          /\ (d # 0 /\ args[d] = ConfigureFlag /\ d < Len(args)
                /\ Unmarshal(args[d + 1]).err # NoError) =>
                (result.nil /\ err \in MalformedConfiguration)
          /\ args = <<<<"p","r","o","g">>>> => err \in MissingConfiguration
          /\ args = <<<<"p","r","o","g">>, ConfigureFlag>> => err \in MissingConfiguration
          /\ args = <<<<"p","r","o","g">>, ConfigureEq \o NotJson>> =>
                err \in MalformedConfiguration

C2_Witness ==
    /\ npc = "returned"
    /\ args = <<<<"p","r","o","g">>, ConfigureFlag>>
    /\ result.nil
    /\ err = ErrNoPort

\* C3: when the first start-up argument is -introspect, ServeIntroSpect writes
\* the descriptor as JSON to standard output and exits with status 0 without
\* returning, so ServeAndRecvSpec never parses or returns parameters; for any
\* other first argument (or none) it returns with no output and no exit.
C3_IntrospectExits ==
    IF Len(args) >= 2 /\ args[2] = IntrospectFlag
       THEN /\ npc \in {"main", "exited"}
            /\ result.nil
            /\ err = NoError
            /\ npc = "exited" =>
                  /\ exitCode = 0
                  /\ Len(stdout) = 1
                  /\ JsonField(stdout[1], <<"i","d">>) = descriptor.ID
                  /\ JsonField(stdout[1], <<"t","y","p","e">>) = descriptor.Type
                  /\ JsonField(stdout[1], <<"v","e","r","s","i","o","n","_","m","a","j","o","r">>) = descriptor.VersionMajor
                  /\ JsonField(stdout[1], <<"v","e","r","s","i","o","n","_","m","i","n","o","r">>) = descriptor.VersionMinor
                  /\ JsonField(stdout[1], <<"v","e","r","s","i","o","n","_","p","a","t","c","h">>) = descriptor.VersionPatch
       ELSE /\ npc # "exited"
            /\ stdout = <<>>
            /\ exitCode = NoExit

C3_Witness ==
    /\ npc = "exited"
    /\ exitCode = 0
    /\ args = <<<<"p","r","o","g">>, IntrospectFlag, ConfigureEq \o FullPayload>>
    /\ result.nil


\* C4: for a router mounted at /ui, a directory-style request (path ending in
\* a separator) is answered with a 302 redirect to the same request path with
\* index.html appended, so /ui/ is redirected to /ui/index.html.
C4_RedirectToRequestPath ==
    \A s \in Slots :
       (/\ slot[s].pc = "done"
        /\ router.HandlerPrefix = <<"/","u","i">>
        /\ HasSuffix(RequestPath(s), Slash)
        /\ slot[s].resp.status = 302) =>
          slot[s].resp.location = RequestPath(s) \o <<"i","n","d","e","x",".","h","t","m","l">>

C7_NoCrossContamination ==
    /\ router # NoRouter =>
          router = NewPluginEmbedUIRouter(PluginID, ctorIn[1], ctorIn[2])
    /\ \A s \in Slots, t \in Slots :
          (/\ s # t
           /\ slot[s].pc = "done"
           /\ slot[t].pc # "idle"
           /\ slot[s].uri = slot[t].uri
           /\ HtmlRequest(s)
           /\ slot[s].resp.status = 200
           /\ EffectiveToken(slot[s].hdr) # EffectiveToken(slot[t].hdr)) =>
             /\ \E f \in NamedFiles(s) :
                   slot[s].resp.body
                      = Filled(Pieces(f.data), EffectiveToken(slot[s].hdr))
             /\ ~Contains(slot[s].resp.body, EffectiveToken(slot[t].hdr))

C7_Witness ==
    /\ slot[1].pc = "done"
    /\ slot[2].pc = "done"
    /\ slot[1].uri = <<"/","u","i","/","i","n","d","e","x",".","h","t","m","l">>
    /\ slot[2].uri = <<"/","u","i","/","i","n","d","e","x",".","h","t","m","l">>
    /\ slot[1].hdr = << <<"a","b","c","1","2","3">> >>
    /\ slot[2].hdr = << <<"x","y","z","7","8","9">> >>
    /\ slot[1].resp.body = <<"a","a","b","c","1","2","3","b","a","b","c","1","2","3">>
    /\ slot[2].resp.body = <<"a","x","y","z","7","8","9","b","x","y","z","7","8","9">>

\* C8: for every pair of strings passed to NewPluginEmbedUIRouter, both
\* TargetFsPrefix and HandlerPrefix of the router start with exactly one
\* slash and carry no trailing slash.
C8_PrefixesNormalized ==
    router # NoRouter =>
       \A prefix \in {router.TargetFsPrefix, router.HandlerPrefix} :
          /\ HasPrefix(prefix, Slash)
          /\ ~HasPrefix(prefix, <<"/","/">>)
          /\ ~HasSuffix(prefix, Slash)

\* C9 as stated: over any sequence of requests handled by one router
\* instance, the failure to construct the asset subtree occurs at most once.
C9_AtMostOnce == logged <= 1

\* C9 amended: the failure to construct the asset subtree occurs on every
\* request handled by an instance whose asset prefix names no subtree, from
\* the first use on: each such request is answered 500 and logged once, and
\* the process keeps running; an instance with a usable prefix never reports
\* it.
C9_OnEveryUse ==
    /\ exitCode = NoExit
    /\ \A s \in Slots :
          slot[s].pc = "done" =>
             (slot[s].resp.status = 500 <=> ~SubtreeConstructible)
    /\ router # NoRouter =>
          logged = IF SubtreeConstructible THEN 0
                   ELSE started - Cardinality({s \in Slots : slot[s].pc = "rewritten"})

C9_Witness ==
    /\ logged >= 2
    /\ \E s \in Slots :
          /\ slot[s].pc = "done"
          /\ slot[s].resp.status = 500

\* C10: for every request URI, the prefix-strip step of Handler removes the
\* configured HandlerPrefix from the front of the request path and collapses
\* doubled separators, so the rewritten path that is dispatched on contains
\* no two consecutive slashes.
C10_NoDoubledSeparator ==
    \A s \in Slots :
       slot[s].pc # "idle" =>
          /\ ~Contains(slot[s].rewrittenURL, <<"/","/">>)
          /\ ~Contains(slot[s].url.Path, <<"/","/">>)

====
